---- MODULE Spec2Model ----
(***************************************************************************)
(* A model of the coordination layer of the M&A automation application:    *)
(*   - MAStrategyBot (src/app.py): the elicitation dialogue, its stage     *)
(*     machine, the retry loop of get_response and its fallbacks;          *)
(*   - the pipeline side of src/app.py: PROCESSING_STATUS, the file        *)
(*     watcher callback, the poller check_file_updates, the background     *)
(*     worker run_analysis_thread and the part of main() that starts it;   *)
(*   - the per-company tools of src/tools.py.                              *)
(* The specifications SpecBot, Spec (the pipeline), SpecTools, SpecRace,    *)
(* SpecStartup and SpecDialogue (the chat branch of main()) share the      *)
(* module.                                                                 *)
(***************************************************************************)
EXTENDS Integers, Sequences, FiniteSets

VARIABLES
    \* ---- MAStrategyBot
    current_stage,      \* MAStrategyBot.current_stage (a Stage name)
    collected_info,     \* MAStrategyBot.collected_info (MAStrategyInfo)
    bpc,                \* where get_response is: "idle" or "calling"
    retry,              \* the loop variable of `for retry in range(max_retries)`
    user_message,       \* the argument of the get_response call in progress
    attempts,           \* how each chat.send_message of the current call ended
    ret,                \* what the last get_response call returned
    prev_stage,         \* current_stage when the current call was entered
    prev_info,          \* collected_info when the current call was entered
    answer_complete,    \* response_data.get("answer_complete") of the last attempt
    \* ---- the pipeline side of app.py
    PROCESSING_STATUS,  \* st.session_state["PROCESSING_STATUS"]
    ANALYSIS_THREAD_STARTED, \* st.session_state["ANALYSIS_THREAD_STARTED"]
    analysis_started,   \* st.session_state["analysis_started"]
    files,              \* the output directory: path -> "absent", "empty", "data"
    threads,            \* each worker thread: "none", "started", "stream", "done"
    nsteps,             \* streamed steps the workers have taken
    nevents,            \* events the watcher has delivered
    st_rerun,           \* what st.rerun() does off the script thread in this build
    \* ---- the analyst's tools (tools.py)
    faults,             \* per symbol, what goes wrong inside each tool
    results,            \* per symbol and tool, how the call ended
    fmp_data,           \* outputs/fmp_data: per symbol and tool, the artifact
    \* ---- the threads of app.py, statement by statement
    watcher_cb,         \* the watcher callback in progress: statement, path, value read
    script_run,         \* the script run of main(): position, snapshot read so far
    worker_step,        \* the worker's loop body in progress: statement, agent_name
    wholes,             \* the (progress, current_task, message) seen between updates
    \* ---- the start-up block of main()
    STARTUP,            \* st.session_state["STARTUP"]
    OBSERVER,           \* st.session_state["OBSERVER"]: "None" or "alive"
    start_pc,           \* where the start-up block is: "cleanup", "watcher", "done"
    st_errors,          \* the file_path of every st.error call of the cleanup
    \* ---- the chat branch of main()
    conversation_ended, \* st.session_state["conversation_ended"]
    conversation_history, \* bot.conversation_history: "empty" or "nonempty"
    turn,               \* the chat turn: "idle", or "responding" inside line 877
    nsaves              \* the calls of bot.save_strategy_info() so far

botVars == <<current_stage, collected_info, bpc, retry, user_message, attempts,
             ret, prev_stage, prev_info, answer_complete>>

pipeVars == <<PROCESSING_STATUS, ANALYSIS_THREAD_STARTED, analysis_started,
              files, threads, nsteps, nevents, st_rerun>>

toolVars == <<faults, results, fmp_data>>

raceVars == <<watcher_cb, script_run, worker_step, wholes>>

startVars == <<STARTUP, OBSERVER, start_pc, st_errors>>

mainVars == <<conversation_ended, conversation_history, turn, nsaves>>

vars == <<botVars, pipeVars, toolVars, raceVars, startVars, mainVars>>

----------------------------------------------------------------------------
(* Stage (Enum, auto()): the members in definition order.                  *)
Stage == <<"INDUSTRY", "GOALS", "BUDGET", "TIMELINE", "FINANCIAL_HEALTH",
           "MARKET_POSITION", "RISKS", "COMPLETION", "COMPLETE">>

StageNames == {Stage[i] : i \in DOMAIN Stage}

\* The position of a stage in the enumeration (auto() numbers them 1..9).
StageOrd(s) == CHOOSE i \in DOMAIN Stage : Stage[i] = s

Null == "null"

\* The named fields of MAStrategyInfo other than is_complete.
InfoFields == {"industry", "specific_company", "goals", "budget", "timeline",
               "financial_health", "market_position", "risks_concern",
               "risks_details"}

\* MAStrategyInfo(): every field None, is_complete False.
MAStrategyInfo ==
    [industry |-> Null, specific_company |-> Null, goals |-> Null,
     budget |-> Null, timeline |-> Null, financial_health |-> Null,
     market_position |-> Null, risks_concern |-> Null, risks_details |-> Null,
     is_complete |-> FALSE]

max_retries == 3

\* _advance_stage with a wrong default: an unknown stage restarts the dialogue.
AdvanceStageRestart(s) ==
    IF s \in StageNames /\ StageOrd(s) < Len(Stage) THEN Stage[StageOrd(s) + 1]
    ELSE "INDUSTRY"

\* _advance_stage: stage_progression.get(current_stage, Stage.COMPLETE).
AdvanceStage(s) ==
    IF s \in StageNames /\ StageOrd(s) < Len(Stage) THEN Stage[StageOrd(s) + 1]
    ELSE "COMPLETE"

----------------------------------------------------------------------------
(* Texts.  A text is a sequence of segments; a segment is a word (a string *)
(* without braces), the character "{" or "}", or a record standing for the  *)
(* text of one well-formed JSON object.                                     *)

\* The fixed industry vocabulary, in the order of the list in get_response.
Industries == <<"technology", "healthcare", "finance", "education", "retail",
                "manufacturing">>

\* str.lower() of a word.
Lower(w) ==
    CASE w = "TECHNOLOGY" -> "technology"
      [] w = "Technology" -> "technology"
      [] w = "Healthcare" -> "healthcare"
      [] w = "EDUCATION"  -> "education"
      [] w = "Retail"     -> "retail"
      [] w = "Refinance"  -> "refinance"
      [] OTHER            -> w

\* str.capitalize() of a lower-case vocabulary word.
Capitalize(w) ==
    CASE w = "technology"    -> "Technology"
      [] w = "healthcare"    -> "Healthcare"
      [] w = "finance"       -> "Finance"
      [] w = "education"     -> "Education"
      [] w = "retail"        -> "Retail"
      [] w = "manufacturing" -> "Manufacturing"
      [] OTHER               -> w

\* `kw in word` for a vocabulary keyword: "finance" is a substring of
\* "refinance"; every other word of the model contains only itself.
WordContains(w, kw) == w = kw \/ (w = "refinance" /\ kw = "finance")

\* user_message.lower()
LowerText(t) == [i \in DOMAIN t |-> Lower(t[i])]

\* `kw in text` (substring test) for a text made of words.
TextContains(t, kw) == \E i \in DOMAIN t : WordContains(t[i], kw)

\* The user messages of the model.  <<>> is the empty string.
UserMessages ==
    { <<>>,
      <<"focused", "on", "the", "TECHNOLOGY", "sector">>,
      <<"Retail", "or", "Healthcare">>,
      <<"EDUCATION">>,
      <<"Refinance", "our", "debt">>,
      <<"hello">> }

----------------------------------------------------------------------------
(* Model replies.  A reply either is a failed chat.send_message call or    *)
(* carries response.text, a sequence of segments [t, w, d]:                 *)
(*   t = "word"  a piece of text without braces (w names it),              *)
(*   t = "lb" / "rb"  a single "{" / "}" character,                        *)
(*   t = "obj"   the text of one well-formed JSON object, d its content.   *)

\* The content of a JSON object of the wire contract.  info_kind says
\* whether the key collected_info is absent, an object, or not an object
\* (null); info holds the non-null and null fields of that object.
NoData ==
    [answer_complete |-> FALSE, is_strategy_complete |-> FALSE,
     info_kind |-> "absent", info |-> <<>>, has_next |-> FALSE]

InfoChoices ==
    { [k |-> "absent",  i |-> [f \in {} |-> Null]],
      [k |-> "notdict", i |-> [f \in {} |-> Null]],
      [k |-> "dict",    i |-> [f \in {"industry", "goals"} |-> Null]],
      [k |-> "dict",    i |-> [f \in {"industry"} |-> "Retail"]],
      [k |-> "dict",    i |-> [f \in {"goals", "risks_concern"} |->
                                  IF f = "goals" THEN "growth" ELSE Null]] }

ReplyData ==
    { [answer_complete |-> a, is_strategy_complete |-> c,
       info_kind |-> ic.k, info |-> ic.i, has_next |-> n] :
        a \in BOOLEAN, c \in BOOLEAN, ic \in InfoChoices, n \in {TRUE} }
    \cup
    { [answer_complete |-> TRUE, is_strategy_complete |-> FALSE,
       info_kind |-> "absent", info |-> [f \in {} |-> Null],
       has_next |-> FALSE] }

Word(w) == [t |-> "word", w |-> w, d |-> NoData]
LB == [t |-> "lb", w |-> "{", d |-> NoData]
RB == [t |-> "rb", w |-> "}", d |-> NoData]
Obj(d) == [t |-> "obj", w |-> "", d |-> d]

ThankYou == "Thank you for providing this information"

\* One object whose reply is also wrapped in prose and in stray braces.
SampleData ==
    [answer_complete |-> TRUE, is_strategy_complete |-> FALSE,
     info_kind |-> "dict", info |-> [f \in {"industry"} |-> "Retail"],
     has_next |-> TRUE]

ReplyTexts ==
    { <<Obj(d)>> : d \in ReplyData }
    \cup
    { <<Word("Sure"), Obj(SampleData), Word("Bye")>>,
      <<Obj(SampleData), Word("note"), RB>>,
      <<Obj(SampleData), Obj(SampleData)>>,
      <<Word("Sorry")>>,
      <<Word(ThankYou)>>,
      <<LB, Word("oops"), RB>>,
      <<LB, Word(ThankYou), RB>>,
      <<RB, Word("x"), LB>> }

\* A reply: a failed model call, or a text.
Replies ==
    { [raised |-> TRUE, text |-> <<>>] }
    \cup { [raised |-> FALSE, text |-> t] : t \in ReplyTexts }

\* response.text.find("{"): the first segment holding a "{" (0: none).
FindOpen(t) ==
    LET S == {i \in DOMAIN t : t[i].t \in {"lb", "obj"}}
    IN  IF S = {} THEN 0 ELSE CHOOSE i \in S : \A j \in S : i <= j

\* response.text.rfind("}"): the last segment holding a "}" (0: none).
RFindClose(t) ==
    LET S == {i \in DOMAIN t : t[i].t \in {"rb", "obj"}}
    IN  IF S = {} THEN 0 ELSE CHOOSE i \in S : \A j \in S : j <= i

\* `start >= 0 and end > start`: a "{" exists and the last "}" lies after
\* it (an object segment opens and closes in the same segment).
HasSpan(t) ==
    /\ FindOpen(t) > 0
    /\ RFindClose(t) >= FindOpen(t)
    /\ (RFindClose(t) = FindOpen(t) => t[FindOpen(t)].t = "obj")

\* json_str = response.text[start:end]
JsonStr(t) == SubSeq(t, FindOpen(t), RFindClose(t))

\* json.loads(json_str) succeeds exactly when the span is one object.
JsonLoads(span) == Len(span) = 1 /\ span[1].t = "obj"

\* `"Thank you for providing this information" in response.text`
HasThankYou(t) == \E i \in DOMAIN t : t[i].t = "word" /\ t[i].w = ThankYou

\* How one loop iteration of get_response ends for a reply.
Outcome(reply) ==
    IF reply.raised THEN "raise"
    ELSE IF ~HasSpan(reply.text) THEN "nospan"
    ELSE IF ~JsonLoads(JsonStr(reply.text)) THEN "badjson"
    ELSE IF JsonStr(reply.text)[1].d.info_kind = "notdict" THEN "typeerror"
    ELSE "ok"

----------------------------------------------------------------------------
(* MAStrategyBot.get_response.  The call suspends on every model call, so  *)
(* it is one action for the entry and one action per loop iteration.       *)

\* What get_response returns: a (text, is_complete) tuple, or None when the
\* function falls off its end.  "pending" while the call is in progress.
Tuple(text, done) == [kind |-> "tuple", text |-> text, is_complete |-> done]
NoneRet == [kind |-> "None", text |-> "", is_complete |-> FALSE]
Pending == [kind |-> "pending", text |-> "", is_complete |-> FALSE]

Welcome == "Welcome! To begin our M&A strategy discussion, ..."
MoreDetails == "Could you provide more details?"
TroubleProcessing == "I'm having trouble processing that. ..."
IssueProcessing == "I encountered an issue processing your request. ..."
Ack(industry) == "I understand you're interested in the " \o industry \o " sector. ..."

\* A variant of the scan that keeps the last entry found instead of returning
\* at the first.
LastIndustry(msg) ==
    LET S == {i \in DOMAIN Industries : TextContains(LowerText(msg), Industries[i])}
    IN  IF S = {} THEN 0 ELSE CHOOSE i \in S : \A j \in S : i >= j

\* The first entry of the vocabulary list found in the lower-cased message
\* (0: none): `for industry in [...]: if industry in user_message_lower`.
FirstIndustry(msg) ==
    LET S == {i \in DOMAIN Industries : TextContains(LowerText(msg), Industries[i])}
    IN  IF S = {} THEN 0 ELSE CHOOSE i \in S : \A j \in S : i <= j

\* The loop `for key, value in collected_info.items(): if value is not None:
\* setattr(...)`, then `self.collected_info.is_complete = is_strategy_complete`.
MergeInfo(old, info, done) ==
    [f \in DOMAIN old |->
        IF f = "is_complete" THEN done
        ELSE IF f \in DOMAIN info /\ info[f] # Null THEN info[f]
        ELSE old[f]]

\* A variant of the test that lets the loop run one more iteration.
LastRetryOffByOne == retry >= max_retries

\* The last iteration of `for retry in range(self.max_retries)`.
LastRetry == retry >= max_retries - 1

\* A variant of the entry without the `if not user_message` test.
GetResponseUnguarded(msg) ==
    /\ bpc = "idle"
    /\ user_message' = msg
    /\ prev_stage' = current_stage
    /\ prev_info' = collected_info
    /\ attempts' = <<>>
    /\ answer_complete' = FALSE
    /\ retry' = 0
    /\ ret' = Pending
    /\ bpc' = "calling"
    /\ UNCHANGED <<current_stage, collected_info>>

\* get_response(user_message): the entry, up to the first model call.
GetResponse(msg) ==
    /\ bpc = "idle"
    /\ user_message' = msg
    /\ prev_stage' = current_stage
    /\ prev_info' = collected_info
    /\ attempts' = <<>>
    /\ answer_complete' = FALSE
    /\ retry' = 0
    /\ IF msg = <<>>
          THEN /\ ret' = Tuple(Welcome, FALSE)
               /\ bpc' = "idle"
          ELSE /\ ret' = Pending
               /\ bpc' = "calling"
    /\ UNCHANGED <<current_stage, collected_info>>

\* `continue`, or the end of an iteration that neither returned nor raised:
\* the next iteration, or the end of the function (which returns None).
NextIteration ==
    IF LastRetry
      THEN /\ ret' = NoneRet
           /\ bpc' = "idle"
           /\ UNCHANGED retry
      ELSE /\ retry' = retry + 1
           /\ UNCHANGED <<ret, bpc>>

\* A variant of the parsed path that advances whatever answer_complete says.
OnParsedAdvancing(d) ==
    /\ collected_info' =
          IF d.info_kind = "dict"
            THEN MergeInfo(collected_info, d.info, d.is_strategy_complete)
            ELSE collected_info
    /\ current_stage' = AdvanceStage(current_stage)
    /\ ret' = Tuple(IF d.has_next THEN "next_message" ELSE MoreDetails,
                    d.is_strategy_complete)
    /\ bpc' = "idle"
    /\ UNCHANGED retry

\* The reply parsed: lines 480-504.
OnParsed(d) ==
    /\ collected_info' =
          IF d.info_kind = "dict"
            THEN MergeInfo(collected_info, d.info, d.is_strategy_complete)
            ELSE collected_info
    /\ current_stage' =
          IF d.answer_complete THEN AdvanceStage(current_stage) ELSE current_stage
    /\ ret' = Tuple(IF d.has_next THEN "next_message" ELSE MoreDetails,
                    d.is_strategy_complete)
    /\ bpc' = "idle"
    /\ UNCHANGED retry

\* What a handler leaves behind on the last retry: the stage, the record and
\* the value returned.
Handled(stage, info, r) == [stage |-> stage, info |-> info, ret |-> r]

\* except json.JSONDecodeError on the last retry: lines 510-538.
JSONDecodeErrorResult(stage, info, msg, text) ==
    IF HasThankYou(text)
      THEN Handled(stage, [info EXCEPT !.is_complete = TRUE],
                   Tuple("response.text", TRUE))
    ELSE IF /\ stage = "INDUSTRY"
            /\ info.industry = Null
            /\ FirstIndustry(msg) > 0
      THEN Handled(AdvanceStage(stage),
                   [info EXCEPT !.industry = Capitalize(Industries[FirstIndustry(msg)])],
                   Tuple(Ack(Industries[FirstIndustry(msg)]), FALSE))
    ELSE Handled(stage, info, Tuple(TroubleProcessing, FALSE))

\* except Exception on the last retry: lines 545-561.
ExceptionResult(stage, info, msg) ==
    IF stage = "INDUSTRY" /\ TextContains(LowerText(msg), "education")
      THEN Handled(AdvanceStage(stage), [info EXCEPT !.industry = "Education"],
                   Tuple(Ack("education"), FALSE))
      ELSE Handled(stage, info, Tuple(IssueProcessing, FALSE))

\* A handler on the last retry returns.
Return(h) ==
    /\ current_stage' = h.stage
    /\ collected_info' = h.info
    /\ ret' = h.ret
    /\ bpc' = "idle"
    /\ UNCHANGED retry

\* except json.JSONDecodeError: lines 506-538.
OnJSONDecodeError(text) ==
    IF ~LastRetry
      THEN /\ retry' = retry + 1
           /\ UNCHANGED <<ret, bpc, current_stage, collected_info>>
      ELSE Return(JSONDecodeErrorResult(current_stage, collected_info,
                                        user_message, text))

\* except Exception: lines 540-561.
OnException ==
    IF ~LastRetry
      THEN /\ retry' = retry + 1
           /\ UNCHANGED <<ret, bpc, current_stage, collected_info>>
      ELSE Return(ExceptionResult(current_stage, collected_info, user_message))

\* response_data.get("answer_complete") for a reply (line 496); false for a
\* reply that gave no response_data.
AnswerComplete(reply) ==
    Outcome(reply) = "ok" /\ JsonStr(reply.text)[1].d.answer_complete

\* One iteration of the retry loop: the model call and what follows it.
Attempt(reply) ==
    /\ bpc = "calling"
    /\ attempts' = Append(attempts, Outcome(reply))
    /\ answer_complete' = AnswerComplete(reply)
    /\ CASE Outcome(reply) = "ok" -> OnParsed(JsonStr(reply.text)[1].d)
         [] Outcome(reply) = "badjson" -> OnJSONDecodeError(reply.text)
         [] Outcome(reply) = "nospan" ->
                NextIteration /\ UNCHANGED <<current_stage, collected_info>>
         [] OTHER -> OnException
    /\ UNCHANGED <<user_message, prev_stage, prev_info>>

InitBot ==
    /\ current_stage = "INDUSTRY"
    /\ collected_info = MAStrategyInfo
    /\ bpc = "idle"
    /\ retry = 0
    /\ user_message = <<>>
    /\ attempts = <<>>
    /\ ret = Pending
    /\ prev_stage = "INDUSTRY"
    /\ prev_info = MAStrategyInfo
    /\ answer_complete = FALSE

----------------------------------------------------------------------------
(* The pipeline side of app.py.  Progress is held in percent (0.25 is 25). *)

\* A path: its directory and the pieces of its file name, so that
\* str.endswith is a comparison of trailing pieces.
BASE_DIR == "outputs"
FMP_DATA_DIR == "outputs/fmp_data"

STRATEGY_INFO_PATH == [dir |-> BASE_DIR, name |-> <<"strategy_info.json">>]
STRATEGY_REPORT_PATH == [dir |-> BASE_DIR, name |-> <<"output.md">>]
COMPANIES_PATH == [dir |-> BASE_DIR, name |-> <<"companies.json">>]
VALUATION_REPORT_PATH == [dir |-> BASE_DIR, name |-> <<"valuation.md">>]

\* Path("outputs/fmp_data") / f"{symbol}_metrics.md" and f"{symbol}_valuation.md"
MetricsPath(symbol) == [dir |-> FMP_DATA_DIR, name |-> <<symbol, "_", "metrics.md">>]
ValuationPath(symbol) == [dir |-> FMP_DATA_DIR, name |-> <<symbol, "_", "valuation.md">>]

\* The company symbols of the model.
Symbols == {"AAPL"}

MilestonePaths ==
    {STRATEGY_INFO_PATH, STRATEGY_REPORT_PATH, COMPANIES_PATH, VALUATION_REPORT_PATH}

FmpPaths == {MetricsPath(s) : s \in Symbols} \cup {ValuationPath(s) : s \in Symbols}

AllPaths == MilestonePaths \cup FmpPaths

\* file_path.endswith(suffix), the suffix given as pieces.
EndsWith(path, suffix) ==
    /\ Len(suffix) <= Len(path.name)
    /\ SubSeq(path.name, Len(path.name) - Len(suffix) + 1, Len(path.name)) = suffix

\* file_path.startswith(FMP_DATA_DIR)
InFmpDir(path) == path.dir = FMP_DATA_DIR

\* os.path.exists(p) and os.path.getsize(p) > 0
NonEmpty(fs, path) == fs[path] = "data"

\* The initial PROCESSING_STATUS (module level, main, cleanup_outputs_directory).
InitialStatus ==
    [current_agent |-> Null, current_task |-> Null, start_time |-> Null,
     progress |-> 0, message |-> "Ready to start analysis", error |-> Null,
     completed_tasks |-> {}, total_tasks |-> 4, is_running |-> FALSE]

\* ImprovedFileChangeHandler._process_change: the new status.
ProcessChangeStatus(ps, path) ==
    IF EndsWith(path, <<"strategy_info.json">>) THEN
        [ps EXCEPT !.progress = IF 25 > ps.progress THEN 25 ELSE ps.progress,
                   !.message = "Strategy information collected",
                   !.current_task = "Researching companies",
                   !.completed_tasks = ps.completed_tasks \cup {"strategy"}]
    ELSE IF EndsWith(path, <<"output.md">>) THEN
        [ps EXCEPT !.progress = IF 50 > ps.progress THEN 50 ELSE ps.progress,
                   !.message = "Strategy report generated",
                   !.current_task = "Analyzing financials",
                   !.completed_tasks = ps.completed_tasks \cup {"report"}]
    ELSE IF EndsWith(path, <<"companies.json">>) THEN
        [ps EXCEPT !.progress = IF 75 > ps.progress THEN 75 ELSE ps.progress,
                   !.message = "Companies identified",
                   !.current_task = "Performing valuation",
                   !.completed_tasks = ps.completed_tasks \cup {"companies"}]
    ELSE IF EndsWith(path, <<"valuation.md">>) THEN
        [ps EXCEPT !.progress = 100,
                   !.message = "Valuation complete",
                   !.current_task = "Analysis complete",
                   !.completed_tasks = ps.completed_tasks \cup {"valuation"},
                   !.is_running = FALSE]
    ELSE IF InFmpDir(path) /\ (EndsWith(path, <<"_", "metrics.md">>)
                               \/ EndsWith(path, <<"_", "valuation.md">>)) THEN
        [ps EXCEPT !.message = "Processing financial data for " \o path.name[1]]
    ELSE ps

\* The task id whose signal an event for `path` carries ("" for none).
SignalOf(path) ==
    IF EndsWith(path, <<"strategy_info.json">>) THEN "strategy"
    ELSE IF EndsWith(path, <<"output.md">>) THEN "report"
    ELSE IF EndsWith(path, <<"companies.json">>) THEN "companies"
    ELSE IF EndsWith(path, <<"valuation.md">>) THEN "valuation"
    ELSE ""

\* files_to_check of check_file_updates, in the order of the dict.
files_to_check ==
    << [key |-> "strategy_info", path |-> STRATEGY_INFO_PATH, progress |-> 25,
        message |-> "Strategy information collected",
        task |-> "Researching companies", task_id |-> "strategy"],
       [key |-> "strategy_report", path |-> STRATEGY_REPORT_PATH, progress |-> 50,
        message |-> "Strategy report generated",
        task |-> "Analyzing financials", task_id |-> "report"],
       [key |-> "companies", path |-> COMPANIES_PATH, progress |-> 75,
        message |-> "Companies identified",
        task |-> "Performing valuation", task_id |-> "companies"],
       [key |-> "valuation_report", path |-> VALUATION_REPORT_PATH, progress |-> 100,
        message |-> "Valuation complete",
        task |-> "Analysis complete", task_id |-> "valuation"] >>

\* The entries of files_to_check whose file exists and is not empty.
Found(fs) == {i \in DOMAIN files_to_check : NonEmpty(fs, files_to_check[i].path)}

\* files_found after the loop.
FilesFound(fs) == Cardinality(Found(fs))

\* A variant of the loop body whose test is `progress >= ...`.
CheckEntryAtLeast(ps, fs, e) ==
    IF NonEmpty(fs, e.path) /\ e.progress >= ps.progress
      THEN [ps EXCEPT !.progress = e.progress,
                      !.message = e.message,
                      !.current_task = e.task,
                      !.completed_tasks = @ \cup {e.task_id}]
      ELSE ps

\* A variant of the loop body that assigns completed_tasks instead of adding
\* to it.
CheckEntryAssigning(ps, fs, e) ==
    IF NonEmpty(fs, e.path) /\ e.progress > ps.progress
      THEN [ps EXCEPT !.progress = e.progress,
                      !.message = e.message,
                      !.current_task = e.task,
                      !.completed_tasks = {e.task_id}]
      ELSE ps

\* The body of the loop over files_to_check for one entry: lines 307-316.
CheckEntry(ps, fs, e) ==
    IF NonEmpty(fs, e.path) /\ e.progress > ps.progress
      THEN [ps EXCEPT !.progress = e.progress,
                      !.message = e.message,
                      !.current_task = e.task,
                      !.completed_tasks = @ \cup {e.task_id}]
      ELSE ps

\* The loop over files_to_check, from entry i on: lines 300-316.
RECURSIVE CheckLoop(_, _, _)
CheckLoop(ps, fs, i) ==
    IF i > Len(files_to_check) THEN ps
    ELSE CheckLoop(CheckEntry(ps, fs, files_to_check[i]), fs, i + 1)

\* `files_found == 4 and PROCESSING_STATUS["is_running"]`, after the loop.
AllFound(ps, fs) == FilesFound(fs) = 4 /\ ps.is_running

\* lines 319-326: PROCESSING_STATUS.update({...}) of the branch after the loop.
CompletionStatus(ps) ==
    [ps EXCEPT !.is_running = FALSE,
               !.message = "Analysis complete",
               !.progress = 100,
               !.current_task = "Complete"]

\* A variant of check_file_updates without the branch that follows the loop.
CheckFileUpdatesLoopOnly(ps, fs) == CheckLoop(ps, fs, 1)

\* check_file_updates: the new status.
CheckFileUpdatesStatus(ps, fs) ==
    LET looped == CheckLoop(ps, fs, 1)
    IN  IF AllFound(looped, fs) THEN CompletionStatus(looped) ELSE looped

\* check_file_updates: the new ANALYSIS_THREAD_STARTED.
CheckFileUpdatesStarted(started, ps, fs) ==
    IF AllFound(CheckLoop(ps, fs, 1), fs) THEN TRUE ELSE started

\* progress_updates of run_analysis_thread: agent_name -> (progress, task).
progress_updates ==
    [strategist |-> [progress |-> 25, task |-> "Generating strategy report",
                     message |-> "Working on generating strategy report"],
     researcher |-> [progress |-> 50, task |-> "Researching companies",
                     message |-> "Working on researching companies"],
     analyst    |-> [progress |-> 75, task |-> "Analyzing financials",
                     message |-> "Working on analyzing financials"],
     valuator   |-> [progress |-> 100, task |-> "Generating valuation report",
                     message |-> "Working on generating valuation report"]]

\* The agent names a streamed step may carry; Null: the step has none,
\* "manager": a name that is not a key of progress_updates.
AgentNames == {Null, "strategist", "researcher", "analyst", "valuator", "manager"}

\* A streamed step: whether its action_output holds MNA_PROCESS_COMPLETE,
\* and its agent_name.
Steps == [sentinel : BOOLEAN, agent_name : AgentNames]

\* What st.rerun() does when called off the script thread (by the worker or a
\* watcher callback): it raises the script-control exception, which no
\* `except Exception` catches, or it returns without effect.  One build does
\* one or the other.
RerunOutcomes == {"raises", "returns"}

\* lines 583-589: the status once the worker has set itself up.
WorkerSetupStatus(ps) ==
    [ps EXCEPT !.start_time = "set",
               !.is_running = TRUE,
               !.current_agent = "strategist",
               !.current_task = "Generating strategy report",
               !.message = "Starting analysis..."]

\* A variant of the worker without its finally clause.
WorkerFinallyMissing(ps) == ps

\* `finally: PROCESSING_STATUS["is_running"] = False`
WorkerFinallyStatus(ps) == [ps EXCEPT !.is_running = FALSE]

\* lines 598-608: the sentinel in a step's output, up to check_file_updates().
SentinelStatus(ps, fs) ==
    CheckFileUpdatesStatus(
        [ps EXCEPT !.is_running = FALSE,
                   !.message = "Analysis complete",
                   !.progress = 100,
                   !.current_task = "Complete"], fs)

\* lines 611-648: a step's agent_name.
AgentStatus(ps, name) ==
    IF name = Null THEN ps
    ELSE LET named == [ps EXCEPT !.current_agent = name,
                                 !.current_task =
                                    CASE name = "strategist" -> "Generating strategy report"
                                      [] name = "researcher" -> "Researching companies"
                                      [] name = "analyst" -> "Analyzing financials"
                                      [] name = "valuator" -> "Generating valuation report"
                                      [] OTHER -> @]
         IN  IF name \in DOMAIN progress_updates
               THEN [named EXCEPT !.progress = progress_updates[name].progress,
                                  !.current_task = progress_updates[name].task,
                                  !.message = progress_updates[name].message]
               ELSE named

\* Whether the body of the loop leaves the worker through st.rerun().
StepLeaves(step, rerun) ==
    /\ rerun = "raises"
    /\ step.sentinel \/ step.agent_name \in DOMAIN progress_updates

\* One iteration of `for step in result` (lines 594-649): the new status.
StepStatus(ps, fs, step, rerun) ==
    IF step.sentinel
      THEN IF rerun = "raises"
             THEN WorkerFinallyStatus(SentinelStatus(ps, fs))
             ELSE AgentStatus(SentinelStatus(ps, fs), step.agent_name)
      ELSE IF StepLeaves(step, rerun)
             THEN WorkerFinallyStatus(AgentStatus(ps, step.agent_name))
             ELSE AgentStatus(ps, step.agent_name)

\* A variant of the handler that also clears the progress of the run.
WorkerExceptionResetting(ps) ==
    WorkerFinallyStatus([ps EXCEPT !.error = "Analysis error",
                                   !.message = "Error during analysis",
                                   !.progress = 0,
                                   !.current_task = Null])

\* A variant of the handler that records nothing: only the finally clause.
WorkerExceptionUnrecorded(ps) == WorkerFinallyStatus(ps)

\* lines 653-663: an exception of the pipeline call or of the stream.
WorkerExceptionStatus(ps) ==
    WorkerFinallyStatus([ps EXCEPT !.error = "Analysis error", 
                                   !.message = "Error during analysis"])

\* lines 651-663: the stream is exhausted.
WorkerEndStatus(ps, fs) == WorkerFinallyStatus(CheckFileUpdatesStatus(ps, fs))

----------------------------------------------------------------------------
(* The operations of the pipeline side.                                     *)

MaxThreads == 2
\* The streamed steps plus the watcher events of a run of the model.
MaxSignals == 2
ThreadIds == 1..MaxThreads

\* threading.Thread(target=run_analysis_thread).start(): one more thread.
FreeThreads(th) == {t \in ThreadIds : th[t] = "none"}
StartThread(th) ==
    LET t == CHOOSE x \in FreeThreads(th) : \A y \in FreeThreads(th) : x <= y
    IN  [th EXCEPT ![t] = "started"]

Streaming == \E t \in ThreadIds : threads[t] = "stream"

\* The artifacts the agents of the pipeline write, in the order in which the
\* pipeline produces them (run.py, MANAGER_PROMPT: strategist, researcher,
\* analyst, valuator, each called once; prompts.py, ANALYST_PROMPT: the
\* metrics of a company, then its valuation).
ArtifactOrder ==
    <<STRATEGY_INFO_PATH, STRATEGY_REPORT_PATH, COMPANIES_PATH,
      MetricsPath("AAPL"), ValuationPath("AAPL"), VALUATION_REPORT_PATH>>

\* The artifact written just before `path`.
Before(path) ==
    ArtifactOrder[(CHOOSE i \in DOMAIN ArtifactOrder : ArtifactOrder[i] = path) - 1]

AgentPaths == AllPaths \ {STRATEGY_INFO_PATH}

\* An agent's tool opens its artifact for writing, `open(path, "w")`, which
\* leaves it empty until the data is written.  In the model every artifact
\* is written once, after the one before it.
OpenFile(path) ==
    /\ Streaming
    /\ files[path] = "absent"
    /\ files[Before(path)] = "data"
    /\ files' = [files EXCEPT ![path] = "empty"]
    /\ UNCHANGED <<PROCESSING_STATUS, ANALYSIS_THREAD_STARTED,
                   analysis_started, threads, nsteps, nevents, st_rerun>>

\* `f.write(...)` and the close of the artifact.
WriteFile(path) ==
    /\ files[path] = "empty"
    /\ files' = [files EXCEPT ![path] = "data"]
    /\ UNCHANGED <<PROCESSING_STATUS, ANALYSIS_THREAD_STARTED,
                   analysis_started, threads, nsteps, nevents, st_rerun>>

\* The watcher thread delivers a create/modify event of an existing file:
\* on_created / on_modified -> _process_change.  Where st.rerun() raises,
\* the first callback ends the observer thread.
ProcessChange(path) ==
    /\ files[path] # "absent"
    /\ st_rerun = "raises" => nevents = 0
    /\ PROCESSING_STATUS' = ProcessChangeStatus(PROCESSING_STATUS, path)
    /\ nsteps + nevents < MaxSignals
    /\ nevents' = nevents + 1
    /\ UNCHANGED <<ANALYSIS_THREAD_STARTED, analysis_started, files, threads,
                   nsteps, st_rerun>>

\* A variant of main() that offers the button whether or not the dialogue
\* has ended.
GenerateStrategyUngated ==
    /\ ~analysis_started
    /\ FreeThreads(threads) # {}
    /\ analysis_started' = TRUE
    /\ threads' = StartThread(threads)
    /\ UNCHANGED <<PROCESSING_STATUS, ANALYSIS_THREAD_STARTED,
                   files, nsteps, nevents, st_rerun>>

\* main(), lines 857 and 889-898: the "Generate Strategy" button, offered
\* once the conversation has ended.
GenerateStrategy ==
    /\ conversation_ended
    /\ ~analysis_started
    /\ FreeThreads(threads) # {}
    /\ analysis_started' = TRUE
    /\ threads' = StartThread(threads)
    /\ UNCHANGED <<PROCESSING_STATUS, ANALYSIS_THREAD_STARTED,
                   files, nsteps, nevents, st_rerun>>

\* main(), lines 899-922: a rerun of the script once the analysis started:
\* the thread start guarded by ANALYSIS_THREAD_STARTED, then check_file_updates().
MainRerun ==
    /\ conversation_ended
    /\ analysis_started
    /\ ~ANALYSIS_THREAD_STARTED => FreeThreads(threads) # {}
    /\ threads' = IF ANALYSIS_THREAD_STARTED THEN threads ELSE StartThread(threads)
    /\ ANALYSIS_THREAD_STARTED' = TRUE
    /\ PROCESSING_STATUS' = CheckFileUpdatesStatus(PROCESSING_STATUS, files)
    /\ UNCHANGED <<analysis_started, files, nsteps, nevents, st_rerun>>

\* run_analysis_thread, lines 566-589: the import of the manager fails (the
\* outer handler and the finally clause run), or the worker sets itself up.
WorkerStart(t, imported) ==
    /\ threads[t] = "started"
    /\ IF imported
         THEN /\ PROCESSING_STATUS' = WorkerSetupStatus(PROCESSING_STATUS)
              /\ threads' = [threads EXCEPT ![t] = "stream"]
         ELSE /\ PROCESSING_STATUS' = WorkerFinallyStatus(PROCESSING_STATUS)
              /\ threads' = [threads EXCEPT ![t] = "done"]
    /\ UNCHANGED <<ANALYSIS_THREAD_STARTED, analysis_started, files,
                   nsteps, nevents, st_rerun>>

\* run_analysis_thread, lines 594-649: the worker takes one streamed step.
WorkerStep(t, step) ==
    /\ threads[t] = "stream"
    /\ PROCESSING_STATUS' = StepStatus(PROCESSING_STATUS, files, step, st_rerun)
    /\ threads' = IF StepLeaves(step, st_rerun)
                    THEN [threads EXCEPT ![t] = "done"] ELSE threads
    /\ nsteps + nevents < MaxSignals
    /\ nsteps' = nsteps + 1
    /\ UNCHANGED <<ANALYSIS_THREAD_STARTED, analysis_started, files,
                   nevents, st_rerun>>

\* run_analysis_thread, lines 651-663: the stream ends; check_file_updates()
\* and the finally clause.
WorkerEnd(t) ==
    /\ threads[t] = "stream"
    /\ PROCESSING_STATUS' = WorkerEndStatus(PROCESSING_STATUS, files)
    /\ ANALYSIS_THREAD_STARTED' =
          CheckFileUpdatesStarted(ANALYSIS_THREAD_STARTED, PROCESSING_STATUS, files)
    /\ threads' = [threads EXCEPT ![t] = "done"]
    /\ UNCHANGED <<analysis_started, files, nsteps, nevents, st_rerun>>

\* run_analysis_thread, lines 653-663: manager.run or the stream raises.
WorkerException(t) ==
    /\ threads[t] = "stream"
    /\ PROCESSING_STATUS' = WorkerExceptionStatus(PROCESSING_STATUS)
    /\ threads' = [threads EXCEPT ![t] = "done"]
    /\ UNCHANGED <<ANALYSIS_THREAD_STARTED, analysis_started, files,
                   nsteps, nevents, st_rerun>>

----------------------------------------------------------------------------
(* The analyst's tools (tools.py) and the batch of companies they are       *)
(* called for (prompts.py, ANALYST_PROMPT).                                 *)

SymbolPool == <<"AAPL", "MSFT", "TSLA", "NVDA">>
\* The number of companies of a batch.
MaxBatch == 2
Batch == SubSeq(SymbolPool, 1, MaxBatch)
BatchSymbols == {Batch[i] : i \in DOMAIN Batch}
Tools == {"metrics", "valuation"}

\* Where a call of collect_financial_metrics can fail: the Toolkit
\* constructor (line 71), a statement or ratio request or its to_markdown
\* (lines 73-90), the open or write of the artifact (lines 92-94).
MetricsFaults == {"none", "toolkit", "statement", "open"}

\* Where a call of perform_valuation_analysis can fail: the constructors
\* (lines 117-118), the enterprise value section (120-124), the profile/DCF
\* section (126-146), the LBO section (202-210), the open or write of the
\* artifact (293-294).
ValuationFaults == {"none", "toolkit", "ev", "profile", "lbo", "open"}

\* What a tool call gives its caller, and whether it wrote its artifact.
ToolResult(status, written) == [status |-> status, written |-> written]

\* A variant of collect_financial_metrics whose handler lets the exception
\* through.
collect_financial_metrics_uncaught(fault) ==
    IF fault = "none" THEN ToolResult("success", TRUE)
    ELSE ToolResult("raised", FALSE)

\* collect_financial_metrics: the whole body is in one try; the handler
\* returns {"status": "error"}.  The artifact is written last.
collect_financial_metrics(fault) ==
    IF fault = "none" THEN ToolResult("success", TRUE)
    ELSE ToolResult("error", FALSE)

\* The faults that a section's own `except Exception` turns into an
\* {"Error": ...} entry.
SectionFaults == {"ev", "profile", "lbo"}

\* The report's f-string (lines 242-291) reads profile, first_col, dcf_value
\* and dcf_difference outside any conditional: they are unbound when the
\* profile/DCF section failed.
ReportRaises(fault) == fault = "profile"

\* perform_valuation_analysis: sections with their own handlers, the report,
\* the artifact, all in an outer try whose handler returns {"status": "error"}.
perform_valuation_analysis(fault) ==
    IF fault \in SectionFaults \cup {"none"} /\ ~ReportRaises(fault)
      THEN ToolResult("success", TRUE)
      ELSE ToolResult("error", FALSE)

\* The calls of the batch in the order of ANALYST_PROMPT: for each company,
\* its metrics, then its valuation.
Calls ==
    [i \in 1..(2 * MaxBatch) |->
        [symbol |-> Batch[(i + 1) \div 2],
         tool |-> IF i % 2 = 1 THEN "metrics" ELSE "valuation"]]

\* An exception that leaves a tool ends the code the analyst is running.
Aborted(res) == \E s \in BatchSymbols, t \in Tools : res[s][t] = "raised"

\* The calls not made yet.
PendingCalls(res) ==
    {i \in DOMAIN Calls : res[Calls[i].symbol][Calls[i].tool] = "none"}

\* The index of the next call of the batch, 0 when the batch is over.
NextCall(res) ==
    IF Aborted(res) \/ PendingCalls(res) = {} THEN 0
    ELSE CHOOSE i \in PendingCalls(res) : \A j \in PendingCalls(res) : i <= j

BatchOver == NextCall(results) = 0

Record(s, tool, r) ==
    /\ results' = [results EXCEPT ![s][tool] = r.status]
    /\ fmp_data' = [fmp_data EXCEPT ![s][tool] =
                        IF r.written THEN "data" ELSE @]
    /\ UNCHANGED faults

\* The analyst calls collect_financial_metrics(symbol).
CollectFinancialMetrics(s) ==
    /\ NextCall(results) # 0
    /\ Calls[NextCall(results)] = [symbol |-> s, tool |-> "metrics"]
    /\ Record(s, "metrics", collect_financial_metrics(faults[s].metrics))

\* The analyst calls perform_valuation_analysis(symbol).
PerformValuationAnalysis(s) ==
    /\ NextCall(results) # 0
    /\ Calls[NextCall(results)] = [symbol |-> s, tool |-> "valuation"]
    /\ Record(s, "valuation", perform_valuation_analysis(faults[s].valuation))

\* "If analysis fails for any company, do not stop the process, instead,
\* continue with the next company": after an error of the metrics the
\* analyst may leave the company's valuation out.
SkipValuation(s) ==
    /\ NextCall(results) # 0
    /\ Calls[NextCall(results)] = [symbol |-> s, tool |-> "valuation"]
    /\ results[s]["metrics"] = "error"
    /\ results' = [results EXCEPT ![s]["valuation"] = "skipped"]
    /\ UNCHANGED <<faults, fmp_data>>

\* No batch: the tools have not been called.
InitToolsIdle ==
    /\ faults = [s \in BatchSymbols |-> [metrics |-> "none", valuation |-> "none"]]
    /\ results = [s \in BatchSymbols |-> [t \in Tools |-> "none"]]
    /\ fmp_data = [s \in BatchSymbols |-> [t \in Tools |-> "absent"]]

\* A batch about to start, with any fault for any company.
InitTools ==
    /\ faults \in [BatchSymbols -> [metrics : MetricsFaults, valuation : ValuationFaults]]
    /\ results = [s \in BatchSymbols |-> [t \in Tools |-> "none"]]
    /\ fmp_data = [s \in BatchSymbols |-> [t \in Tools |-> "absent"]]


----------------------------------------------------------------------------
(* The threads of app.py statement by statement.  PROCESSING_STATUS is a    *)
(* plain dict in st.session_state and the code takes no lock: the watcher   *)
(* callback (observer thread), the worker (its own thread) and main() (the  *)
(* script thread) interleave between statements.  One store or one          *)
(* dict.update() is one step.                                               *)

\* The statements of the branch of _process_change taken for a path, by the
\* key each one stores (lines 105-158).
WatcherFields(path) ==
    IF EndsWith(path, <<"strategy_info.json">>) \/ EndsWith(path, <<"output.md">>)
         \/ EndsWith(path, <<"companies.json">>)
      THEN <<"progress", "message", "current_task", "completed_tasks">>
    ELSE IF EndsWith(path, <<"valuation.md">>)
      THEN <<"progress", "message", "current_task", "completed_tasks", "is_running">>
    ELSE IF InFmpDir(path) /\ (EndsWith(path, <<"_", "metrics.md">>)
                               \/ EndsWith(path, <<"_", "valuation.md">>))
      THEN <<"message">>
    ELSE <<>>

\* One store of the callback: the value the branch gives the key, the
\* max(fraction, progress) computed from the progress read beforehand.
WatcherStore(ps, path, f, read) ==
    [ps EXCEPT ![f] = ProcessChangeStatus([ps EXCEPT !.progress = read], path)[f]]

\* The stores under `if progress > PROCESSING_STATUS["progress"]` (lines 313-316).
PollerFields == <<"progress", "message", "current_task", "completed_tasks">>

PollerStore(ps, e, f) ==
    [ps EXCEPT ![f] = CASE f = "progress" -> e.progress
                        [] f = "message" -> e.message
                        [] f = "current_task" -> e.task
                        [] OTHER -> ps.completed_tasks \cup {e.task_id}]

\* What main() reads for the display (lines 843-845), in this order.
ReadFields == <<"progress", "current_task", "message">>
View(ps) == [f \in {"progress", "current_task", "message"} |-> ps[f]]

\* The worker's statements for a step with an agent_name of progress_updates:
\* the store of current_agent (612), of current_task (616-631), update() (642).
WorkerFields == <<"current_agent", "current_task", "update">>

WorkerStore(ps, name, f) ==
    CASE f = "current_agent" -> [ps EXCEPT !.current_agent = name]
      [] f = "current_task" ->
            [ps EXCEPT !.current_task = AgentStatus(ps, name).current_task]
      [] OTHER -> AgentStatus(ps, name)

NoCallback == [k |-> 0, path |-> STRATEGY_INFO_PATH, read |-> 0]
NoStep == [k |-> 0, name |-> "strategist"]
ScriptAt(pc, i, k, snap) == [pc |-> pc, i |-> i, k |-> k, snap |-> snap]

\* A thread is inside an update of the status: between its first read or
\* store for the update and its last store.
WatcherInside(w) == w.k > 0
PollerInside(sr) == sr.pc = "store"
WorkerInside(ws) == ws.k > 0
Quiescent(w, sr, ws) == ~WatcherInside(w) /\ ~PollerInside(sr) /\ ~WorkerInside(ws)

\* The views of the status at the moments no update is in progress, kept
\* while main() reads and until it has displayed what it read.
Observe ==
    wholes' = IF script_run.pc = "read"
                THEN IF Quiescent(watcher_cb', script_run', worker_step')
                       THEN wholes \cup {View(PROCESSING_STATUS')} ELSE wholes
                ELSE IF script_run' = script_run THEN wholes ELSE {}

RaceFrame == UNCHANGED <<analysis_started, files, threads, st_rerun>>

\* The observer thread enters _process_change for an existing file and reads
\* progress for the max() of the branch.
WatcherBegin(path) ==
    /\ watcher_cb.k = 0
    /\ files[path] # "absent"
    /\ WatcherFields(path) # <<>>
    /\ nsteps + nevents < MaxSignals
    /\ nevents' = nevents + 1
    /\ watcher_cb' = [k |-> 1, path |-> path, read |-> PROCESSING_STATUS.progress]
    /\ UNCHANGED <<PROCESSING_STATUS, ANALYSIS_THREAD_STARTED, nsteps,
                   script_run, worker_step>>
    /\ RaceFrame

\* The next store of the callback.
WatcherStatement ==
    /\ watcher_cb.k > 0
    /\ PROCESSING_STATUS' =
          WatcherStore(PROCESSING_STATUS, watcher_cb.path,
                       WatcherFields(watcher_cb.path)[watcher_cb.k], watcher_cb.read)
    /\ watcher_cb' = IF watcher_cb.k = Len(WatcherFields(watcher_cb.path))
                       THEN NoCallback
                       ELSE [watcher_cb EXCEPT !.k = @ + 1]
    /\ UNCHANGED <<ANALYSIS_THREAD_STARTED, nsteps, nevents, script_run, worker_step>>
    /\ RaceFrame

\* main(), lines 843-845: the next read for the display.
ScriptRead ==
    /\ script_run.pc = "read"
    /\ script_run' =
         LET snap == [script_run.snap EXCEPT
                        ![ReadFields[script_run.k]] =
                            PROCESSING_STATUS[ReadFields[script_run.k]]]
         IN  IF script_run.k = Len(ReadFields)
               THEN ScriptAt("poll", 1, 0, snap)
               ELSE ScriptAt("read", 0, script_run.k + 1, snap)
    /\ UNCHANGED <<PROCESSING_STATUS, ANALYSIS_THREAD_STARTED, nsteps, nevents,
                   watcher_cb, worker_step>>
    /\ RaceFrame

\* The locals read for the display are dead once check_file_updates runs.
Displayed == View(InitialStatus)

\* The position after entry i of files_to_check.
AfterEntry(sr) ==
    IF sr.i = Len(files_to_check)
      THEN ScriptAt("complete", 0, 0, Displayed)
      ELSE ScriptAt("poll", sr.i + 1, 0, Displayed)

\* check_file_updates, lines 307-312: the tests for one entry.
ScriptTest ==
    /\ script_run.pc = "poll"
    /\ script_run' =
         IF /\ NonEmpty(files, files_to_check[script_run.i].path)
            /\ files_to_check[script_run.i].progress > PROCESSING_STATUS.progress
           THEN ScriptAt("store", script_run.i, 1, Displayed)
           ELSE AfterEntry(script_run)
    /\ UNCHANGED <<PROCESSING_STATUS, ANALYSIS_THREAD_STARTED, nsteps, nevents,
                   watcher_cb, worker_step>>
    /\ RaceFrame

\* check_file_updates, lines 313-316: the next store for the entry.
ScriptStore ==
    /\ script_run.pc = "store"
    /\ PROCESSING_STATUS' =
          PollerStore(PROCESSING_STATUS, files_to_check[script_run.i],
                      PollerFields[script_run.k])
    /\ script_run' = IF script_run.k = Len(PollerFields)
                       THEN AfterEntry(script_run)
                       ELSE [script_run EXCEPT !.k = @ + 1]
    /\ UNCHANGED <<ANALYSIS_THREAD_STARTED, nsteps, nevents, watcher_cb, worker_step>>
    /\ RaceFrame

\* check_file_updates, lines 318-328: the branch after the loop.
ScriptComplete ==
    /\ script_run.pc = "complete"
    /\ IF AllFound(PROCESSING_STATUS, files)
         THEN /\ PROCESSING_STATUS' = CompletionStatus(PROCESSING_STATUS)
              /\ ANALYSIS_THREAD_STARTED' = TRUE
         ELSE UNCHANGED <<PROCESSING_STATUS, ANALYSIS_THREAD_STARTED>>
    /\ script_run' = [script_run EXCEPT !.pc = "done"]
    /\ UNCHANGED <<nsteps, nevents, watcher_cb, worker_step>>
    /\ RaceFrame

\* run_analysis_thread, line 594: the worker receives a step with an
\* agent_name of progress_updates.
WorkerBegin(name) ==
    /\ worker_step.k = 0
    /\ \E t \in ThreadIds : threads[t] = "stream"
    /\ nsteps + nevents < MaxSignals
    /\ nsteps' = nsteps + 1
    /\ worker_step' = [k |-> 1, name |-> name]
    /\ UNCHANGED <<PROCESSING_STATUS, ANALYSIS_THREAD_STARTED, nevents,
                   watcher_cb, script_run>>
    /\ RaceFrame

\* The next statement of the loop body.
WorkerStatement ==
    /\ worker_step.k > 0
    /\ PROCESSING_STATUS' =
          WorkerStore(PROCESSING_STATUS, worker_step.name, WorkerFields[worker_step.k])
    /\ worker_step' = IF worker_step.k = Len(WorkerFields)
                        THEN NoStep
                        ELSE [worker_step EXCEPT !.k = @ + 1]
    /\ UNCHANGED <<ANALYSIS_THREAD_STARTED, nsteps, nevents, watcher_cb, script_run>>
    /\ RaceFrame

\* No thread is followed statement by statement.
InitRaceIdle ==
    /\ watcher_cb = NoCallback
    /\ script_run = ScriptAt("done", 0, 0, Displayed)
    /\ worker_step = NoStep
    /\ wholes = {}

\* The output directory when the agents have written the first n artifacts.
FilesWritten(n) ==
    [p \in AllPaths |->
        IF \E i \in 1..n : ArtifactOrder[i] = p THEN "data" ELSE "absent"]

\* One worker is streaming, the strategist or every agent has written its
\* artifacts, and a script run of main() is about to read the status.
InitRace ==
    /\ PROCESSING_STATUS = WorkerSetupStatus(InitialStatus)
    /\ ANALYSIS_THREAD_STARTED = TRUE
    /\ analysis_started = TRUE
    /\ files \in {FilesWritten(2), FilesWritten(Len(ArtifactOrder))}
    /\ threads = [t \in ThreadIds |-> IF t = 1 THEN "stream" ELSE "none"]
    /\ nsteps = 0
    /\ nevents = 0
    /\ st_rerun = "returns"
    /\ watcher_cb = NoCallback
    /\ script_run = ScriptAt("read", 0, 1, Displayed)
    /\ worker_step = NoStep
    /\ wholes = {View(WorkerSetupStatus(InitialStatus))}

----------------------------------------------------------------------------
(* The start-up block of main() (lines 825-828): cleanup_outputs_directory, *)
(* setup_file_watcher, STARTUP = False.                                     *)

\* os.path.join(BASE_DIR, "fmp_data") as an entry of os.listdir(BASE_DIR).
FmpDirEntry == [dir |-> BASE_DIR, name |-> <<"fmp_data">>]

\* The orders in which shutil.rmtree may meet the files of fmp_data.
FmpListings ==
    {o \in [1..Cardinality(FmpPaths) -> FmpPaths] :
        \A p \in FmpPaths : \E i \in DOMAIN o : o[i] = p}

\* shutil.rmtree(fmp_data) raises at the first file it cannot delete: that
\* file and the files it has not reached stay.
RmtreeKeeps(fs, undeletable, order) ==
    {order[i] : i \in {k \in DOMAIN order :
        /\ fs[order[k]] # "absent"
        /\ \E j \in 1..k : fs[order[j]] # "absent" /\ order[j] \in undeletable}}

\* A variant of the loop that unlinks files and leaves directories alone.
CleanupFilesTopOnly(fs, undeletable, order) ==
    [p \in AllPaths |->
        IF p \in MilestonePaths
          THEN IF p \in undeletable THEN fs[p] ELSE "absent"
          ELSE fs[p]]

\* cleanup_outputs_directory, lines 182-194: the directory afterwards.  A
\* failed os.unlink or shutil.rmtree is caught and the loop goes on.
CleanupFiles(fs, undeletable, order) ==
    [p \in AllPaths |->
        IF p \in MilestonePaths
          THEN IF p \in undeletable THEN fs[p] ELSE "absent"
          ELSE IF p \in RmtreeKeeps(fs, undeletable, order) THEN fs[p]
          ELSE "absent"]

\* lines 190-191: the file_path of each st.error("Failed to delete ...").
CleanupErrors(fs, undeletable, order) ==
    {p \in MilestonePaths : fs[p] # "absent" /\ p \in undeletable}
    \cup (IF RmtreeKeeps(fs, undeletable, order) # {} THEN {FmpDirEntry} ELSE {})

\* cleanup_outputs_directory(): lines 180-217.
CleanupOutputsDirectory(undeletable, order) ==
    /\ STARTUP
    /\ start_pc = "cleanup"
    /\ files' = CleanupFiles(files, undeletable, order)
    /\ st_errors' = CleanupErrors(files, undeletable, order)
    /\ PROCESSING_STATUS' = InitialStatus
    /\ ANALYSIS_THREAD_STARTED' = FALSE
    /\ start_pc' = "watcher"
    /\ UNCHANGED <<STARTUP, OBSERVER, analysis_started, threads, nsteps,
                   nevents, st_rerun>>

\* setup_file_watcher() and `STARTUP = False`: lines 163-177 and 828.
SetupFileWatcher ==
    /\ STARTUP
    /\ start_pc = "watcher"
    /\ OBSERVER' = "alive"
    /\ STARTUP' = FALSE
    /\ start_pc' = "done"
    /\ UNCHANGED <<st_errors, pipeVars>>

\* The start-up block has run.
InitStartDone ==
    /\ STARTUP = FALSE
    /\ OBSERVER = "alive"
    /\ start_pc = "done"
    /\ st_errors = {}

\* The first script run of a session reaches line 825: the module-level
\* code has set the session state, and the output directory holds whatever
\* an earlier run of the application left there.
InitStartup ==
    /\ STARTUP = TRUE
    /\ OBSERVER = "None"
    /\ start_pc = "cleanup"
    /\ st_errors = {}
    /\ PROCESSING_STATUS = InitialStatus
    /\ ANALYSIS_THREAD_STARTED = FALSE
    /\ analysis_started = FALSE
    /\ files \in [AllPaths -> {"absent", "empty", "data"}]
    /\ threads = [t \in ThreadIds |-> "none"]
    /\ nsteps = 0
    /\ nevents = 0
    /\ st_rerun = "returns"

----------------------------------------------------------------------------
(* The chat branch of main() (lines 857-887).  A script run that handles a  *)
(* user input suspends on every model call of get_response, so it is the    *)
(* entry, the attempts of the bot, and the statements after the call.       *)

\* lines 866-871: the history is empty; the welcome message is fetched.
MainWelcome ==
    /\ ~conversation_ended
    /\ conversation_history = "empty"
    /\ turn = "idle"
    /\ GetResponse(<<>>)
    /\ conversation_history' = "nonempty"
    /\ UNCHANGED <<conversation_ended, turn, nsaves, pipeVars>>

\* lines 873-877: st.chat_input gave a (non-empty) text; get_response is
\* entered with it.
ChatInput(msg) ==
    /\ ~conversation_ended
    /\ conversation_history = "nonempty"
    /\ turn = "idle"
    /\ msg # <<>>
    /\ GetResponse(msg)
    /\ turn' = "responding"
    /\ UNCHANGED <<conversation_ended, conversation_history, nsaves, pipeVars>>

\* The bot's next model call inside the turn.
ChatAttempt(reply) ==
    /\ turn = "responding"
    /\ Attempt(reply)
    /\ UNCHANGED <<mainVars, pipeVars>>

\* `is_complete or bot.current_stage in [COMPLETION, COMPLETE]` (lines 880-883).
DialogueOver(r, stage) == r.is_complete \/ stage \in {"COMPLETION", "COMPLETE"}

\* A variant of the turn that saves the snapshot after every turn.
ChatTurnEndSavingAlways ==
    /\ turn = "responding"
    /\ bpc = "idle"
    /\ turn' = "idle"
    /\ IF ret.kind = "None"
         THEN UNCHANGED <<conversation_ended, nsaves, files>>
         ELSE /\ conversation_ended' = DialogueOver(ret, current_stage)
              /\ nsaves' = nsaves + 1
              /\ files' = [files EXCEPT ![STRATEGY_INFO_PATH] = "data"]
    /\ UNCHANGED <<conversation_history, botVars, PROCESSING_STATUS,
                   ANALYSIS_THREAD_STARTED, analysis_started, threads,
                   nsteps, nevents, st_rerun>>

\* lines 877-887: get_response has returned.  Unpacking None raises
\* TypeError, which ends the script run; otherwise the test of lines 880-883,
\* conversation_ended and save_strategy_info (json.dump into
\* strategy_info.json).
ChatTurnEnd ==
    /\ turn = "responding"
    /\ bpc = "idle"
    /\ turn' = "idle"
    /\ IF ret.kind # "None" /\ DialogueOver(ret, current_stage)
         THEN /\ conversation_ended' = TRUE
              /\ nsaves' = nsaves + 1
              /\ files' = [files EXCEPT ![STRATEGY_INFO_PATH] = "data"]
         ELSE UNCHANGED <<conversation_ended, nsaves, files>>
    /\ UNCHANGED <<conversation_history, botVars, PROCESSING_STATUS,
                   ANALYSIS_THREAD_STARTED, analysis_started, threads,
                   nsteps, nevents, st_rerun>>

\* The session before the first script run reaches the chat branch.
InitMain ==
    /\ conversation_ended = FALSE
    /\ conversation_history = "empty"
    /\ turn = "idle"
    /\ nsaves = 0

\* The session when the dialogue has just ended (lines 884-885).
InitMainEnded ==
    /\ conversation_ended = TRUE
    /\ conversation_history = "nonempty"
    /\ turn = "idle"
    /\ nsaves = 1

\* The user texts and model replies of the dialogues of SpecDialogue.
DialogueMessages == {<<"EDUCATION">>, <<"hello">>}

DialogueReplies ==
    {r \in Replies :
        \/ r.raised
        \/ r.text \in {<<Word("Sorry")>>, <<LB, Word("oops"), RB>>,
                        <<LB, Word(ThankYou), RB>>}
        \/ /\ Outcome(r) = "ok"
           /\ Len(r.text) = 1
           /\ r.text[1].d.info_kind = "absent"
           /\ r.text[1].d.has_next}

----------------------------------------------------------------------------
(* The specifications.                                                     *)

\* The session after start-up (cleanup_outputs_directory, setup_file_watcher),
\* before the dialogue has ended.
InitPipeIdle ==
    /\ PROCESSING_STATUS = InitialStatus
    /\ ANALYSIS_THREAD_STARTED = FALSE
    /\ analysis_started = FALSE
    /\ files = [p \in AllPaths |-> "absent"]
    /\ threads = [t \in ThreadIds |-> "none"]
    /\ nsteps = 0
    /\ nevents = 0
    /\ st_rerun = "returns"

\* The session when the dialogue has just ended: main() lines 880-887 set
\* conversation_ended and save_strategy_info wrote strategy_info.json.
InitPipe ==
    /\ PROCESSING_STATUS = InitialStatus
    /\ ANALYSIS_THREAD_STARTED = FALSE
    /\ analysis_started = FALSE
    /\ files = [p \in AllPaths |->
                  IF p = STRATEGY_INFO_PATH THEN "data" ELSE "absent"]
    /\ threads = [t \in ThreadIds |-> "none"]
    /\ nsteps = 0
    /\ nevents = 0
    /\ st_rerun \in RerunOutcomes

InitSpec == InitPipe /\ InitBot /\ InitToolsIdle /\ InitRaceIdle /\ InitStartDone /\ InitMainEnded

Next ==
    \/ \E p \in AgentPaths : OpenFile(p) /\ UNCHANGED <<botVars, toolVars, raceVars, startVars, mainVars>>
    \/ \E p \in AgentPaths : WriteFile(p) /\ UNCHANGED <<botVars, toolVars, raceVars, startVars, mainVars>>
    \/ \E p \in AllPaths : ProcessChange(p) /\ UNCHANGED <<botVars, toolVars, raceVars, startVars, mainVars>>
    \/ GenerateStrategy /\ UNCHANGED <<botVars, toolVars, raceVars, startVars, mainVars>>
    \/ MainRerun /\ UNCHANGED <<botVars, toolVars, raceVars, startVars, mainVars>>
    \/ \E t \in ThreadIds, imported \in BOOLEAN : WorkerStart(t, imported) /\ UNCHANGED <<botVars, toolVars, raceVars, startVars, mainVars>>
    \/ \E t \in ThreadIds, step \in Steps : WorkerStep(t, step) /\ UNCHANGED <<botVars, toolVars, raceVars, startVars, mainVars>>
    \/ \E t \in ThreadIds : WorkerEnd(t) /\ UNCHANGED <<botVars, toolVars, raceVars, startVars, mainVars>>
    \/ \E t \in ThreadIds : WorkerException(t) /\ UNCHANGED <<botVars, toolVars, raceVars, startVars, mainVars>>

Spec == InitSpec /\ [][Next]_vars

\* The bot before any call; the pipeline as main() leaves it at start-up.
InitBotSpec == InitBot /\ InitPipeIdle /\ InitToolsIdle /\ InitRaceIdle /\ InitStartDone /\ InitMain

NextBot ==
    \/ \E msg \in UserMessages : GetResponse(msg) /\ UNCHANGED <<pipeVars, toolVars, raceVars, startVars, mainVars>>
    \/ \E reply \in Replies : Attempt(reply) /\ UNCHANGED <<pipeVars, toolVars, raceVars, startVars, mainVars>>

SpecBot == InitBotSpec /\ [][NextBot]_vars

\* A batch of the analyst; the bot and the pipeline at rest.
InitToolsSpec == InitBot /\ InitPipeIdle /\ InitTools /\ InitRaceIdle /\ InitStartDone /\ InitMainEnded

NextTools ==
    \/ \E s \in BatchSymbols : CollectFinancialMetrics(s) /\ UNCHANGED <<botVars, pipeVars, raceVars, startVars, mainVars>>
    \/ \E s \in BatchSymbols : PerformValuationAnalysis(s) /\ UNCHANGED <<botVars, pipeVars, raceVars, startVars, mainVars>>
    \/ \E s \in BatchSymbols : SkipValuation(s) /\ UNCHANGED <<botVars, pipeVars, raceVars, startVars, mainVars>>

SpecTools == InitToolsSpec /\ [][NextTools]_vars

\* The threads statement by statement; the bot and the tools at rest.
InitRaceSpec == InitBot /\ InitToolsIdle /\ InitRace /\ InitStartDone /\ InitMainEnded

NextRace ==
    \/ \E p \in AllPaths : WatcherBegin(p) /\ Observe /\ UNCHANGED <<botVars, toolVars, startVars, mainVars>>
    \/ WatcherStatement /\ Observe /\ UNCHANGED <<botVars, toolVars, startVars, mainVars>>
    \/ ScriptRead /\ Observe /\ UNCHANGED <<botVars, toolVars, startVars, mainVars>>
    \/ ScriptTest /\ Observe /\ UNCHANGED <<botVars, toolVars, startVars, mainVars>>
    \/ ScriptStore /\ Observe /\ UNCHANGED <<botVars, toolVars, startVars, mainVars>>
    \/ ScriptComplete /\ Observe /\ UNCHANGED <<botVars, toolVars, startVars, mainVars>>
    \/ \E name \in DOMAIN progress_updates : WorkerBegin(name) /\ Observe /\ UNCHANGED <<botVars, toolVars, startVars, mainVars>>
    \/ WorkerStatement /\ Observe /\ UNCHANGED <<botVars, toolVars, startVars, mainVars>>

SpecRace == InitRaceSpec /\ [][NextRace]_vars

\* The start-up block of the first script run; the rest at rest.
InitStartupSpec == InitBot /\ InitToolsIdle /\ InitRaceIdle /\ InitStartup /\ InitMain

NextStartup ==
    \/ \E u \in SUBSET AllPaths, o \in FmpListings :
          CleanupOutputsDirectory(u, o) /\ UNCHANGED <<botVars, toolVars, raceVars, mainVars>>
    \/ SetupFileWatcher /\ UNCHANGED <<botVars, toolVars, raceVars, mainVars>>

SpecStartup == InitStartupSpec /\ [][NextStartup]_vars

\* The dialogue of a session from its first script run after start-up, the
\* button and the start of the workers; the watcher is alive.
InitDialogueSpec ==
    InitBot /\ InitPipeIdle /\ InitToolsIdle /\ InitRaceIdle /\ InitStartDone /\ InitMain

NextDialogue ==
    \/ MainWelcome /\ UNCHANGED <<toolVars, raceVars, startVars>>
    \/ \E msg \in DialogueMessages : ChatInput(msg) /\ UNCHANGED <<toolVars, raceVars, startVars>>
    \/ \E reply \in DialogueReplies : ChatAttempt(reply) /\ UNCHANGED <<toolVars, raceVars, startVars>>
    \/ ChatTurnEnd /\ UNCHANGED <<toolVars, raceVars, startVars>>
    \/ \E p \in AllPaths : ProcessChange(p) /\ UNCHANGED <<botVars, toolVars, raceVars, startVars, mainVars>>
    \/ GenerateStrategy /\ UNCHANGED <<botVars, toolVars, raceVars, startVars, mainVars>>
    \/ MainRerun /\ UNCHANGED <<botVars, toolVars, raceVars, startVars, mainVars>>
    \/ \E t \in ThreadIds, imported \in BOOLEAN : WorkerStart(t, imported) /\ UNCHANGED <<botVars, toolVars, raceVars, startVars, mainVars>>

SpecDialogue == InitDialogueSpec /\ [][NextDialogue]_vars

----------------------------------------------------------------------------
(* The claims.                                                              *)

\* C1: over any sequence of get_response calls and model replies (parsed,
\* malformed or failing), current_stage never moves to an earlier stage.
C1_StageNeverBackward ==
    [][StageOrd(current_stage') >= StageOrd(current_stage)]_vars

\* A call that went through two replies that did not parse and then moved
\* the stage forward.
C1_Witness ==
    /\ bpc = "idle"
    /\ Len(attempts) = max_retries
    /\ attempts[1] # "ok" /\ attempts[2] # "ok"
    /\ StageOrd(current_stage) > StageOrd(prev_stage)

\* C2: PROCESSING_STATUS["progress"] never decreases, whichever of the
\* worker, the watcher callback and the poller updates it.
C2_ProgressNonDecreasing ==
    [][PROCESSING_STATUS'.progress >= PROCESSING_STATUS.progress]_vars

\* The two ways an artifact signal is applied to a status: the watcher
\* callback for the artifact's path, and the poller's loop body for its entry.
WatcherApplies(ps, i) == ProcessChangeStatus(ps, files_to_check[i].path)
PollerApplies(ps, i) == CheckEntry(ps, files, files_to_check[i])

\* C3: applying the signal of a present artifact a second time, by the
\* watcher callback or by the poller, leaves progress and completed_tasks as
\* they were after the first application.
C3_RaiseIdempotent ==
    \A i \in Found(files) :
      \A first \in {WatcherApplies(PROCESSING_STATUS, i),
                    PollerApplies(PROCESSING_STATUS, i)} :
        \A second \in {WatcherApplies(first, i), PollerApplies(first, i)} :
          /\ second.progress = first.progress
          /\ second.completed_tasks = first.completed_tasks

\* The replies of the returned call all failed to parse as structured output.
AllParseFailures ==
    /\ Len(attempts) = max_retries
    /\ \A i \in DOMAIN attempts : attempts[i] \in {"nospan", "badjson"}

\* C4: when all max_retries replies of a call fail to parse while the stage
\* is INDUSTRY and the user text contains a vocabulary keyword, the call sets
\* industry to that keyword capitalized, moves to GOALS and returns
\* is_complete = False.
C4_KeywordFallback ==
    (/\ bpc = "idle"
     /\ AllParseFailures
     /\ prev_stage = "INDUSTRY"
     /\ FirstIndustry(user_message) > 0)
    => /\ \E i \in DOMAIN Industries :
             /\ TextContains(LowerText(user_message), Industries[i])
             /\ collected_info.industry = Capitalize(Industries[i])
       /\ current_stage = "GOALS"
       /\ ret.kind = "tuple"
       /\ ~ret.is_complete

\* C5: at stage RISKS, a reply that parses and has is_strategy_complete true
\* moves the stage to COMPLETION and the call returns is_complete = True.
C5_RisksCompletes ==
    (/\ bpc = "idle"
     /\ prev_stage = "RISKS"
     /\ attempts # <<>>
     /\ attempts[Len(attempts)] = "ok"
     /\ ret.is_complete)
    => current_stage = "COMPLETION" /\ ret.kind = "tuple"

\* A poll tick: check_file_updates() called by main() or by the worker.
PollTick == MainRerun \/ \E t \in ThreadIds : WorkerEnd(t)

\* C6: with the four milestone artifacts non-empty and is_running true, a
\* poll tick leaves is_running false and progress 1.0, watcher or no watcher.
C6_PollCompletes ==
    [][(PollTick /\ FilesFound(files) = 4 /\ PROCESSING_STATUS.is_running)
         => (~PROCESSING_STATUS'.is_running /\ PROCESSING_STATUS'.progress = 100)]_vars

\* The poller completed a run in which no watcher event was delivered and
\* the worker took no step.
C6_Witness ==
    /\ nevents = 0 /\ nsteps = 0
    /\ FilesFound(files) = 4
    /\ PROCESSING_STATUS.current_task = "Complete"
    /\ PROCESSING_STATUS.progress = 100
    /\ ~PROCESSING_STATUS.is_running

\* C7: an exception of the pipeline leaves error set and is_running false,
\* and changes no artifact.
C7_ExceptionRecorded ==
    [][(\E t \in ThreadIds : WorkerException(t))
         => /\ PROCESSING_STATUS'.error # Null
            /\ ~PROCESSING_STATUS'.is_running
            /\ files' = files]_vars

\* The pipeline failed while the researcher was current, after the
\* strategist's report was written.
C7_Witness ==
    /\ PROCESSING_STATUS.error # Null
    /\ ~PROCESSING_STATUS.is_running
    /\ PROCESSING_STATUS.current_agent = "researcher"
    /\ files[STRATEGY_INFO_PATH] = "data"
    /\ files[STRATEGY_REPORT_PATH] = "data"
    /\ \E t \in ThreadIds : threads[t] = "done"

\* A company for which nothing goes wrong inside either tool.
Healthy(s) == faults[s] = [metrics |-> "none", valuation |-> "none"]

\* C8: a failure inside collect_financial_metrics or
\* perform_valuation_analysis is returned as an error status and never
\* raised, and when the batch is over every company without a failure has
\* its metrics and its valuation artifact.
C8_FailureIsolated ==
    /\ \A s \in BatchSymbols, t \in Tools : results[s][t] # "raised"
    /\ BatchOver =>
          \A s \in BatchSymbols :
              Healthy(s) => \A t \in Tools : fmp_data[s][t] = "data"

\* Both tools failed for the first company of a batch, and the second
\* company has both artifacts.
C8_Witness ==
    /\ BatchOver
    /\ results[Batch[1]]["metrics"] = "error"
    /\ results[Batch[1]]["valuation"] = "error"
    /\ Healthy(Batch[2])
    /\ \A t \in Tools : fmp_data[Batch[2]][t] = "data" /\ fmp_data[Batch[1]][t] = "absent"

\* C9: at most one worker thread is ever started for a session.
C9_OneWorker == Cardinality({t \in ThreadIds : threads[t] # "none"}) <= 1

\* C10: a step whose output holds the sentinel leaves progress 1.0 and
\* is_running false, whatever agent_name the step carries.
C10_SentinelCompletes ==
    [][\A t \in ThreadIds, step \in Steps :
          (step.sentinel /\ WorkerStep(t, step))
            => (PROCESSING_STATUS'.progress = 100 /\ ~PROCESSING_STATUS'.is_running)]_vars

\* C11: a watcher event for a per-company artifact under fmp_data changes
\* neither progress nor completed_tasks nor is_running.
C11_FmpEventFrame ==
    [][\A p \in FmpPaths :
          ProcessChange(p) =>
            /\ PROCESSING_STATUS'.progress = PROCESSING_STATUS.progress
            /\ PROCESSING_STATUS'.completed_tasks = PROCESSING_STATUS.completed_tasks
            /\ PROCESSING_STATUS'.is_running = PROCESSING_STATUS.is_running]_vars

\* C12: a watcher event for a milestone artifact that is empty at the time of
\* the event leaves PROCESSING_STATUS unchanged.
C12_EmptyFileIgnored ==
    [][\A p \in MilestonePaths :
          (ProcessChange(p) /\ ~NonEmpty(files, p))
            => PROCESSING_STATUS' = PROCESSING_STATUS]_vars

\* C13: an update for an artifact whose fraction is not greater than the
\* current progress, by the watcher callback or by the poller, leaves message
\* and current_task unchanged.
C13_MessageOnlyOnIncrease ==
    \A i \in DOMAIN files_to_check :
      (files[files_to_check[i].path] # "absent"
         /\ files_to_check[i].progress <= PROCESSING_STATUS.progress)
        => \A after \in {WatcherApplies(PROCESSING_STATUS, i),
                         PollerApplies(PROCESSING_STATUS, i)} :
              /\ after.message = PROCESSING_STATUS.message
              /\ after.current_task = PROCESSING_STATUS.current_task

\* C14: the (progress, current_task, message) that main() has read is the
\* view of the status at a moment when no update was in progress, never a mix
\* of fields from a partially applied update.
C14_NoTornSnapshot ==
    (script_run.pc = "poll" /\ script_run.i = 1) => script_run.snap \in wholes

\* C15: the worker, the watcher callback and the poller are never inside
\* their updates of the status at the same time.
C15_Serialized ==
    Cardinality({x \in {"watcher", "poller", "worker"} :
                    \/ x = "watcher" /\ WatcherInside(watcher_cb)
                    \/ x = "poller" /\ PollerInside(script_run)
                    \/ x = "worker" /\ WorkerInside(worker_step)}) <= 1

\* C16: collected_info.is_complete is true exactly when current_stage is
\* COMPLETION or COMPLETE.
C16_CompleteIffCompletion ==
    collected_info.is_complete <=> current_stage \in {"COMPLETION", "COMPLETE"}

\* C17: a get_response call with a non-empty user message returns a
\* (text, is_complete) pair, whatever the replies and failures of the model.
C17_ReturnsPair ==
    (bpc = "idle" /\ user_message # <<>>) => ret.kind = "tuple"

\* All max_retries attempts of the returned call failed, by a reply that did
\* not parse or by an exception.
RetriesExhausted ==
    /\ Len(attempts) = max_retries
    /\ \A i \in DOMAIN attempts : attempts[i] # "ok"

\* C18: when the retries are exhausted and the keyword fallback does not
\* apply, the call returns a clarification prompt with is_complete = False
\* and leaves current_stage and collected_info unchanged.
C18_ClarificationFrame ==
    (/\ bpc = "idle"
     /\ RetriesExhausted
     /\ prev_stage # "INDUSTRY" \/ FirstIndustry(user_message) = 0)
    => /\ ret.kind = "tuple"
       /\ ret.text \in {TroubleProcessing, IssueProcessing}
       /\ ~ret.is_complete
       /\ current_stage = prev_stage
       /\ collected_info = prev_info

\* The replies whose span is not valid JSON.
MalformedReplies == {r \in Replies : Outcome(r) = "badjson"}

\* C19: on the last retry a failure of the model call leaves the same stage
\* and industry and returns the same is_complete as a reply that fails to
\* parse, for the same stage, record and user message.
C19_FailuresAlike ==
    (bpc = "calling" /\ LastRetry) =>
      \A r \in MalformedReplies :
        LET parse == JSONDecodeErrorResult(current_stage, collected_info,
                                           user_message, r.text)
            call == ExceptionResult(current_stage, collected_info, user_message)
        IN  /\ call.stage = parse.stage
            /\ call.info.industry = parse.info.industry
            /\ call.ret.is_complete = parse.ret.is_complete

\* Some worker was started and every started worker has left
\* run_analysis_thread.
AllTerminated(th) ==
    /\ \E t \in ThreadIds : th[t] = "done"
    /\ \A t \in ThreadIds : th[t] \in {"none", "done"}

\* C20: a worker leaves run_analysis_thread, on whichever path, with
\* is_running = False, and is_running is false whenever all started workers
\* have terminated.
C20_WorkerEndsNotRunning ==
    [][/\ \A t \in ThreadIds :
            (threads[t] # "done" /\ threads'[t] = "done")
              => ~PROCESSING_STATUS'.is_running
       /\ AllTerminated(threads') => ~PROCESSING_STATUS'.is_running]_vars

\* Two workers were started; one ended with an exception of the pipeline,
\* the other otherwise, and the status is not running.
C20_Witness ==
    /\ \A t \in ThreadIds : threads[t] = "done"
    /\ PROCESSING_STATUS.error # Null
    /\ PROCESSING_STATUS.start_time # Null
    /\ nsteps > 0
    /\ ~PROCESSING_STATUS.is_running

FallbackFires ==
    /\ attempts'[Len(attempts')] # "ok"
    /\ LastRetry
    /\ current_stage = "INDUSTRY"
    /\ FirstIndustry(user_message) > 0

\* C22: a step of get_response moves current_stage by at most one position
\* of the transition table, and only as the return of the call (so at most
\* once per call), when the reply parsed with answer_complete true or the
\* keyword fallback fired; at COMPLETE the stage stays COMPLETE.
C22_OneStepPerCall ==
    [][/\ StageOrd(current_stage') - StageOrd(current_stage) \in {0, 1}
       /\ current_stage' # current_stage =>
             /\ bpc = "calling" /\ bpc' = "idle"
             /\ answer_complete' \/ FallbackFires
       /\ current_stage = "COMPLETE" => current_stage' = "COMPLETE"]_vars

\* A call made at COMPLETE got a parsed reply with answer_complete and left
\* the stage at COMPLETE, in a dialogue that also used the keyword fallback.
C22_Witness ==
    /\ bpc = "idle"
    /\ prev_stage = "COMPLETE"
    /\ current_stage = "COMPLETE"
    /\ attempts = <<"ok">>
    /\ answer_complete
    /\ collected_info.industry = "Technology"

\* C23: a get_response call makes at most max_retries model calls, and while
\* the call is between a failed attempt and the next, current_stage and
\* collected_info are what they were when the call was entered.
C23_BoundedRetries ==
    /\ Len(attempts) <= max_retries
    /\ bpc = "calling" =>
          /\ Len(attempts) < max_retries
          /\ \A i \in DOMAIN attempts : attempts[i] # "ok"
          /\ current_stage = prev_stage
          /\ collected_info = prev_info

\* A call at stage BUDGET, with an industry collected, is about to make its
\* last model call after a reply that did not parse and a failed model call.
C23_Witness ==
    /\ bpc = "calling"
    /\ attempts = <<"badjson", "raise">>
    /\ current_stage = "BUDGET"
    /\ collected_info.industry # Null
    /\ collected_info.goals # Null

\* C24: after a call whose reply parsed, collected_info.is_complete equals
\* the is_complete flag the call returned (the reply's is_strategy_complete),
\* with or without a collected_info object in the reply.
C24_CompleteFollowsReply ==
    (/\ bpc = "idle"
     /\ attempts # <<>>
     /\ attempts[Len(attempts)] = "ok")
    => /\ ret.kind = "tuple"
       /\ collected_info.is_complete = ret.is_complete

\* The replies that parse and hold a collected_info object.
InfoReplies ==
    {r \in Replies : Outcome(r) = "ok" /\ JsonStr(r.text)[1].d.info_kind = "dict"}

\* The reply of this step parsed and supplied the non-null value that field f
\* now holds.
Supplied(f) ==
    \E reply \in InfoReplies :
        /\ f \in DOMAIN JsonStr(reply.text)[1].d.info
        /\ JsonStr(reply.text)[1].d.info[f] # Null
        /\ JsonStr(reply.text)[1].d.info[f] = collected_info'[f]
        /\ Attempt(reply)

\* C25: a named field of collected_info that holds a non-null value is never
\* set back to null by a step of get_response, and it changes only when a
\* parsed reply supplies another non-null value for it.
C25_LastNonNullWins ==
    [][collected_info' # collected_info =>
          \A f \in InfoFields :
             collected_info[f] # Null =>
                /\ collected_info'[f] # Null
                /\ collected_info'[f] # collected_info[f] =>
                      (attempts'[Len(attempts')] = "ok" /\ Supplied(f))]_vars

\* C26: a get_response call with no user message makes no model call,
\* returns the welcome prompt with is_complete = False, and leaves
\* current_stage and collected_info as they were.
C26_WelcomeFrame ==
    user_message = <<>> =>
       /\ bpc = "idle"
       /\ attempts = <<>>
       /\ ret = Pending \/ ret = Tuple(Welcome, FALSE)
       /\ ret # Pending =>
             (current_stage = prev_stage /\ collected_info = prev_info)

\* A call without a user message returned the welcome prompt after the
\* dialogue had left INDUSTRY with an industry collected.
C26_Witness ==
    /\ user_message = <<>>
    /\ ret = Tuple(Welcome, FALSE)
    /\ current_stage = "GOALS"
    /\ collected_info.industry # Null

\* C27: after a poll tick, for every milestone artifact that is present and
\* non-empty, progress is at least the artifact's fraction and at least what
\* it was, and the artifact's task id is in completed_tasks, as after a
\* watcher event for the artifact; also when progress was already at or above
\* the fraction.
C27_PollLikeWatcher ==
    [][PollTick =>
         \A i \in Found(files) :
            /\ PROCESSING_STATUS'.progress >= files_to_check[i].progress
            /\ PROCESSING_STATUS'.progress >= PROCESSING_STATUS.progress
            /\ files_to_check[i].task_id \in PROCESSING_STATUS'.completed_tasks
            /\ files_to_check[i].task_id
                  \in WatcherApplies(PROCESSING_STATUS, i).completed_tasks]_vars

\* The fraction of the highest milestone artifact that exists and is not
\* empty (0 when there is none).
HighestFraction(fs) ==
    LET S == {files_to_check[i].progress : i \in Found(fs)}
    IN  IF S = {} THEN 0 ELSE CHOOSE x \in S : \A y \in S : y <= x

\* C28: progress is raised above the fraction of the highest existing
\* non-empty milestone artifact only by a step of the worker whose output
\* holds the completion sentinel.
C28_ProgressFollowsArtifacts ==
    [][(/\ PROCESSING_STATUS'.progress > PROCESSING_STATUS.progress
        /\ PROCESSING_STATUS'.progress > HighestFraction(files'))
         => \E t \in ThreadIds, step \in Steps :
               step.sentinel /\ WorkerStep(t, step)]_vars

\* The task ids of the four milestones.
TaskIds == {files_to_check[i].task_id : i \in DOMAIN files_to_check}

\* C29: no step of the worker, the watcher or the poller removes a task id
\* from completed_tasks, and completed_tasks holds only the ids strategy,
\* report, companies and valuation, at most total_tasks of them.
C29_CompletedTasksGrow ==
    [][/\ PROCESSING_STATUS.completed_tasks \subseteq PROCESSING_STATUS'.completed_tasks
       /\ PROCESSING_STATUS'.completed_tasks \subseteq TaskIds
       /\ TaskIds = {"strategy", "report", "companies", "valuation"}
       /\ Cardinality(PROCESSING_STATUS'.completed_tasks)
             <= PROCESSING_STATUS'.total_tasks]_vars

\* All four task ids were collected in a run in which the watcher, the
\* poller and the worker each updated the status.
C29_Witness ==
    /\ PROCESSING_STATUS.completed_tasks = TaskIds
    /\ nevents > 0
    /\ nsteps > 0
    /\ ANALYSIS_THREAD_STARTED

\* The stage agents in the order of MANAGER_PROMPT.
StageAgents == <<"strategist", "researcher", "analyst", "valuator">>

\* The position of a stage agent in that order (0: not a stage agent).
AgentOrd(name) ==
    IF \E i \in DOMAIN StageAgents : StageAgents[i] = name
      THEN CHOOSE i \in DOMAIN StageAgents : StageAgents[i] = name
      ELSE 0

\* C30: the current_agent recorded in the status never goes from a stage
\* agent to an earlier stage agent of the order strategist, researcher,
\* analyst, valuator.
C30_AgentsInOrder ==
    [][(AgentOrd(PROCESSING_STATUS.current_agent) > 0
          /\ AgentOrd(PROCESSING_STATUS'.current_agent) > 0)
         => AgentOrd(PROCESSING_STATUS'.current_agent)
              >= AgentOrd(PROCESSING_STATUS.current_agent)]_vars

\* C31: a worker thread (run_analysis_thread) is started only when
\* conversation_ended is true and the snapshot strategy_info.json has been
\* written.
C31_WorkerAfterDialogue ==
    (\E t \in ThreadIds : threads[t] # "none")
      => /\ conversation_ended
         /\ nsaves > 0
         /\ NonEmpty(files, STRATEGY_INFO_PATH)

\* A worker is running after a dialogue that ended at stage COMPLETION
\* through the keyword fallback and parsed replies.
C31_Witness ==
    /\ \E t \in ThreadIds : threads[t] = "stream"
    /\ conversation_ended
    /\ current_stage = "COMPLETION"
    /\ collected_info.industry = "Education"

\* C32: save_strategy_info is called at most once, in the turn that sets
\* conversation_ended; a turn whose result is is_complete or whose stage is
\* COMPLETION or COMPLETE ends the conversation; and once the conversation
\* has ended no get_response call and no further snapshot write occurs.
C32_SnapshotOnce ==
    [][/\ nsaves' <= 1
       /\ conversation_ended' <=> nsaves' = 1
       /\ (turn' = "idle" /\ ret'.kind = "tuple"
             /\ DialogueOver(ret', current_stage')) => conversation_ended'
       /\ conversation_ended =>
             UNCHANGED <<botVars, nsaves, conversation_ended>>]_vars

\* The dialogue ended on a turn that returned is_complete before the stage
\* reached COMPLETION, the snapshot was written once, and the session went on
\* to start the analysis.
C32_Witness ==
    /\ conversation_ended
    /\ nsaves = 1
    /\ ret.is_complete
    /\ current_stage \notin {"COMPLETION", "COMPLETE"}
    /\ ANALYSIS_THREAD_STARTED
    /\ NonEmpty(files, STRATEGY_INFO_PATH)

\* The fields of the status that the poll tick may write.
PollView(ps) ==
    [f \in {"progress", "message", "current_task", "completed_tasks", "is_running"}
        |-> ps[f]]

\* C33: on an unchanged output directory a second check_file_updates leaves
\* progress, message, current_task, completed_tasks and is_running as the
\* first left them.
C33_PollIdempotent ==
    LET once == CheckFileUpdatesStatus(PROCESSING_STATUS, files)
        twice == CheckFileUpdatesStatus(once, files)
    IN  PollView(twice) = PollView(once)

\* All four milestone artifacts are there while the status is running and
\* below 1.0 after a watcher event: the first tick changes the status.
C33_Witness ==
    /\ FilesFound(files) = 4
    /\ PROCESSING_STATUS.is_running
    /\ nevents > 0
    /\ PROCESSING_STATUS.progress < 100
    /\ PollView(CheckFileUpdatesStatus(PROCESSING_STATUS, files))
          # PollView(PROCESSING_STATUS)

\* C34: when one section of perform_valuation_analysis fails for a symbol,
\* the call still writes the symbol's valuation artifact and reports success.
C34_SectionFailureKeepsArtifact ==
    \A s \in BatchSymbols :
       (faults[s].valuation \in SectionFaults
          /\ results[s]["valuation"] \notin {"none", "skipped"})
         => /\ results[s]["valuation"] = "success"
            /\ fmp_data[s]["valuation"] = "data"

\* The replies that open with a valid contract object and go on with text
\* that holds a "}" or with a second object.
TrailingReplies ==
    {r \in Replies :
        /\ ~r.raised
        /\ Len(r.text) > 1
        /\ r.text[1].t = "obj"
        /\ \E i \in 2..Len(r.text) : r.text[i].t \in {"rb", "obj"}}

\* C35: an attempt whose reply opens with a valid contract object followed by
\* text holding a "}" (or by a second object) parses, and the call returns
\* with the first object applied: its answer_complete, its collected_info and
\* its is_strategy_complete.
C35_FirstBalancedSpan ==
    [][\A r \in TrailingReplies :
          Attempt(r) =>
            /\ attempts'[Len(attempts')] = "ok"
            /\ ret' = Tuple("next_message", r.text[1].d.is_strategy_complete)
            /\ answer_complete' = r.text[1].d.answer_complete
            /\ collected_info' =
                  MergeInfo(collected_info, r.text[1].d.info,
                            r.text[1].d.is_strategy_complete)]_vars

\* Some worker is executing the pipeline before and after the step.
StillActive ==
    \E t \in ThreadIds : threads[t] = "stream" /\ threads'[t] = "stream"

\* C36: while a worker stays active, is_running goes from true to false only
\* by a step of a worker whose output holds the sentinel: not by a watcher
\* event for a file, and not by the termination of another worker.
C36_RunningWhileActive ==
    [][(PROCESSING_STATUS.is_running /\ ~PROCESSING_STATUS'.is_running /\ StillActive)
         => \E t \in ThreadIds, step \in Steps :
               step.sentinel /\ WorkerStep(t, step)]_vars

\* C37: the exception path of the worker leaves progress, completed_tasks,
\* current_agent and current_task as they were when the exception was raised;
\* of the status it changes only error, message and is_running.
C37_ExceptionFrame ==
    [][(\E t \in ThreadIds : WorkerException(t))
         => \A f \in DOMAIN PROCESSING_STATUS :
               f \notin {"error", "message", "is_running"}
                 => PROCESSING_STATUS'[f] = PROCESSING_STATUS[f]]_vars

\* The pipeline failed while the analyst was current at progress 0.75 with
\* a task completed; the status still shows them.
C37_Witness ==
    /\ PROCESSING_STATUS.error # Null
    /\ PROCESSING_STATUS.message = "Error during analysis"
    /\ PROCESSING_STATUS.current_agent = "analyst"
    /\ PROCESSING_STATUS.current_task = "Analyzing financials"
    /\ PROCESSING_STATUS.progress = 75
    /\ PROCESSING_STATUS.completed_tasks # {}

\* The call returned from the keyword scan of the JSONDecodeError handler:
\* the last reply of the budget had a malformed span, the call began at
\* INDUSTRY with no industry, and the text has a word of the vocabulary.
KeywordScanReturned ==
    /\ bpc = "idle"
    /\ Len(attempts) = max_retries
    /\ attempts[max_retries] = "badjson"
    /\ prev_stage = "INDUSTRY"
    /\ prev_info.industry = Null
    /\ ret.kind = "tuple"
    /\ ~ret.is_complete
    /\ \E i \in DOMAIN Industries :
          TextContains(LowerText(user_message), Industries[i])

\* C38: the keyword fallback of the parse-failure handler assigns the entry
\* of the list technology, healthcare, finance, education, retail,
\* manufacturing that comes first among those found in the user text, so the
\* industry is a function of the text alone.
C38_FirstKeywordWins ==
    KeywordScanReturned
    => \E k \in DOMAIN Industries :
          /\ TextContains(LowerText(user_message), Industries[k])
          /\ \A j \in DOMAIN Industries :
                j < k => ~TextContains(LowerText(user_message), Industries[j])
          /\ collected_info.industry = Capitalize(Industries[k])
          /\ ret.text = Ack(Industries[k])

\* "Retail or Healthcare" holds two words of the list; healthcare comes
\* first in the list although retail comes first in the text.
C38_Witness ==
    /\ KeywordScanReturned
    /\ user_message = <<"Retail", "or", "Healthcare">>
    /\ collected_info.industry = "Healthcare"
    /\ current_stage = "GOALS"

====
